---- MODULE Spec2Model ----
(***************************************************************************)
(* A model of the react-native-starter template: the error formatter of   *)
(* utils/logger, the five fetch-lifecycle containers (useFetch, Zustand,  *)
(* Context, Redux, Jotai), the auth containers (Zustand, Redux, Context,  *)
(* Jotai) with the storage and auth services they share, and the          *)
(* ErrorBoundary of the root layout.                                       *)
(*                                                                         *)
(* Encoding of JavaScript values:                                          *)
(*   - a string is a TLA+ string, '' is "";                                *)
(*   - a value that may be null/undefined/absent is an option: Null is    *)
(*     <<>>, a present value v is Some(v) = <<v>>;                         *)
(*   - an array is a sequence, an object a record.                         *)
(***************************************************************************)
EXTENDS Integers, Sequences, FiniteSets, TLC

VARIABLES
  fmtIn, fmtOut, fmtLog,                 \* formatApiError / logApiError
  fv, fs, mounted, pending, solo, now, fev,   \* one fetch-lifecycle container
  av, au, storage, loginP, logoutP, restoreP, aev,  \* one auth container
  sent, lastLogin, restored,  \* sent: an auth operation has sent a request
                              \* since the last restore started
  eb,                         \* this.state of the ErrorBoundary
  exploreData, displayedTodos, \* an Explore screen: the list the request
                              \* returned, the list the screen shows
  loginScreen                 \* the Redux LoginScreen: its hooks' state

fmtVars   == <<fmtIn, fmtOut, fmtLog>>
fetchVars == <<fv, fs, mounted, pending, solo, now, fev>>
authVars  == <<av, au, storage, loginP, logoutP, restoreP, aev,
               sent, lastLogin, restored>>
screenVars == <<exploreData, displayedTodos, loginScreen>>
vars      == <<fmtVars, fetchVars, authVars, eb, screenVars>>

----------------------------------------------------------------------------
(* Options and JavaScript truthiness *)

Null == <<>>
Some(x) == <<x>>
Val(o) == o[1]

\* `s || fallback` for s : string | null | undefined
StrOr(o, fallback) == IF o # Null /\ Val(o) # "" THEN Val(o) ELSE fallback

\* truthiness of an optional number (undefined, 0 and NaN are falsy)
TruthyNum(o) == o # Null /\ Val(o) # 0

\* `v || null` for v : string | null
StrOrNull(o) == IF o # Null /\ Val(o) # "" THEN o ELSE Null

\* `v || null` for v : object | null (an object is always truthy)
ObjOrNull(o) == o

----------------------------------------------------------------------------
(* utils/logger: formatApiError, logApiError *)

Messages == {"", "Not found", "Server error", "Network Error"}
Statuses == {0, 404, 500}

\* the shapes a caught value can have
ErrorInstance(m) == [t |-> "Error", message |-> Some(m), status |-> Null]
ErrObject(m, s)  == [t |-> "object", message |-> m, status |-> s]
JsNull           == [t |-> "null", message |-> Null, status |-> Null]
JsUndefined      == [t |-> "undefined", message |-> Null, status |-> Null]
JsString(s)      == [t |-> "string", message |-> Some(s), status |-> Null]

Thrown ==
  {ErrorInstance(m) : m \in Messages}
    \cup {ErrObject(m, s) : m \in {Null} \cup {Some(x) : x \in Messages},
                            s \in {Null} \cup {Some(n) : n \in Statuses}}
    \cup {JsNull, JsUndefined}
    \cup {JsString(m) : m \in Messages}

UnknownError == "An unknown error occurred"

formatApiError(error) ==
  IF error.t = "Error" THEN Val(error.message)
  ELSE IF error.t = "object" /\ error.message # Null /\ Val(error.message) # ""
       THEN IF TruthyNum(error.status)
            THEN "[" \o ToString(Val(error.status)) \o "] " \o Val(error.message)
            ELSE Val(error.message)
       ELSE UnknownError

\* the line logApiError hands to logger.error
logApiError(message, error) == message \o ": " \o formatApiError(error)

FmtInit ==
  /\ fmtIn \in Thrown
  /\ fmtOut = Null
  /\ fmtLog = Null

FormatApiError ==
  /\ fmtOut = Null
  /\ fmtOut' = Some(formatApiError(fmtIn))
  /\ UNCHANGED <<fmtIn, fmtLog>>

LogApiError ==
  /\ fmtLog = Null
  /\ fmtLog' = Some(logApiError("Failed to fetch", fmtIn))
  /\ UNCHANGED <<fmtIn, fmtOut>>

----------------------------------------------------------------------------
(* placeholders for the parts a specification does not run *)

FetchIdle ==
  /\ fv = "none" /\ fs = Null /\ mounted = FALSE /\ pending = Null
  /\ solo = FALSE /\ now = 0 /\ fev = Null

AuthIdle ==
  /\ av = "none" /\ au = Null /\ storage = Null
  /\ loginP = Null /\ logoutP = Null /\ restoreP = Null /\ aev = Null
  /\ sent = FALSE /\ lastLogin = Null /\ restored = FALSE

FmtIdle == fmtIn = JsNull /\ fmtOut = Null /\ fmtLog = Null

\* components/ErrorBoundary: the state the constructor sets
ErrorBoundaryInit == eb = [hasError |-> FALSE, error |-> JsNull]

\* LoginScreen: useState(false), useRef(null); the [error] effect has run
\* once at mount with the error it saw, and no microtask is queued
LoginScreenInit ==
  [snackbarVisible |-> FALSE, dismissedErrorRef |-> Null,
   effectError |-> Null, microtask |-> FALSE]

ScreenIdle ==
  /\ exploreData = <<>> /\ displayedTodos = Null
  /\ loginScreen = LoginScreenInit

----------------------------------------------------------------------------
(* Specification of the formatter *)

InitFormat ==
  FmtInit /\ FetchIdle /\ AuthIdle /\ ErrorBoundaryInit /\ ScreenIdle

NextFormat ==
  \/ FormatApiError /\ UNCHANGED <<fetchVars, authVars, eb, screenVars>>
  \/ LogApiError /\ UNCHANGED <<fetchVars, authVars, eb, screenVars>>

SpecFormat == InitFormat /\ [][NextFormat]_vars

----------------------------------------------------------------------------
(* C3: formatApiError(e) equals the reference derivation for every input  *)
(* shape: an Error gives its message; an object with a non-empty message  *)
(* gives "[status] message" when a numeric status is present and the      *)
(* message alone when no status is present; null, undefined, a plain      *)
(* string and an object without a message give the fixed fallback.        *)

ReferenceFormat(e) ==
  CASE e.t = "Error" -> Val(e.message)
    [] e.t = "object" /\ e.message # Null /\ Val(e.message) # "" /\ e.status # Null
         -> "[" \o ToString(Val(e.status)) \o "] " \o Val(e.message)
    [] e.t = "object" /\ e.message # Null /\ Val(e.message) # "" /\ e.status = Null
         -> Val(e.message)
    [] OTHER -> UnknownError

C3_FormatMatchesReference ==
  fmtOut # Null => Val(fmtOut) = ReferenceFormat(fmtIn)

----------------------------------------------------------------------------
(* services/api: the response interceptor and the todos endpoints *)

\* what axios hands to the response interceptor's error handler
AxiosErrors ==
  { [message |-> "Network Error", status |-> Null],
    [message |-> "Request failed with status code 404", status |-> Some(404)],
    [message |-> "", status |-> Some(500)] }

\* api.interceptors.response: the rejected value is a plain ApiError object
responseInterceptor(error) ==
  ErrObject(Some(StrOr(Some(error.message), "An error occurred")), error.status)

ApiErrors == {responseInterceptor(e) : e \in AxiosErrors}

\* `err instanceof Error ? err.message : fallback`
instanceofErrorMessage(err, fallback) ==
  IF err.t = "Error" THEN Val(err.message) ELSE fallback

----------------------------------------------------------------------------
(* Todo items and lists *)

MaxTodos == 2
MaxInflight == 2
MaxTick == 1

ClockStart == 7   \* Date.now() is far above every server id

Titles == {"a", "b"}
ServerIds == {1, 2}

Todo(i, t, c) == [id |-> i, userId |-> 1, title |-> t, completed |-> c]

\* what GET /todos (or /todos?userId=) can answer: ids pairwise distinct
ServerLists ==
  { <<>>,
    <<Todo(1, "a", FALSE)>>,
    <<Todo(1, "a", FALSE), Todo(2, "b", TRUE)>>,
    <<Todo(2, "a", TRUE), Todo(1, "b", FALSE)>> }

\* what GET /todos/:id can answer
ServerTodos == {Todo(1, "a", TRUE), Todo(2, "b", FALSE)}

\* payloads a caller can hand to the Redux / Jotai add and update actions
TodoPayloads == {Todo(i, "b", FALSE) : i \in ServerIds}

\* Omit<Todo, 'id'> handed to the Zustand / Context addTodo
TodoData == {[userId |-> 1, title |-> t, completed |-> FALSE] : t \in Titles}

\* Partial<Todo> handed to updateTodo: the fields present override
Updates == {[title |-> Some("b"), completed |-> Null],
            [title |-> Null, completed |-> Some(TRUE)]}

ToggleIds == ServerIds \cup {ClockStart}

merge(todo, updates) ==
  [todo EXCEPT !.title = IF updates.title # Null THEN Val(updates.title) ELSE @,
               !.completed = IF updates.completed # Null
                             THEN Val(updates.completed) ELSE @]

RECURSIVE mapUpdates(_, _, _)
\* todos.map(todo => todo.id === id ? { ...todo, ...updates } : todo)
mapUpdates(todos, id, updates) ==
  IF todos = <<>> THEN <<>>
  ELSE <<IF Head(todos).id = id THEN merge(Head(todos), updates)
         ELSE Head(todos)>> \o mapUpdates(Tail(todos), id, updates)

RECURSIVE mapReplace(_, _)
\* todos.map(todo => todo.id === updated.id ? updated : todo)
mapReplace(todos, updated) ==
  IF todos = <<>> THEN <<>>
  ELSE <<IF Head(todos).id = updated.id THEN updated
         ELSE Head(todos)>> \o mapReplace(Tail(todos), updated)

RECURSIVE mapToggle(_, _)
\* todos.map(todo => todo.id === id ? { ...todo, completed: !todo.completed } : todo)
mapToggle(todos, id) ==
  IF todos = <<>> THEN <<>>
  ELSE <<IF Head(todos).id = id THEN [Head(todos) EXCEPT !.completed = ~@]
         ELSE Head(todos)>> \o mapToggle(Tail(todos), id)

RECURSIVE filterNot(_, _)
\* todos.filter(todo => todo.id !== id)
filterNot(todos, id) ==
  IF todos = <<>> THEN <<>>
  ELSE IF Head(todos).id = id THEN filterNot(Tail(todos), id)
       ELSE <<Head(todos)>> \o filterNot(Tail(todos), id)

\* todos.findIndex(todo => todo.id === id), 0 when there is none
findIndex(todos, id) ==
  IF \E i \in 1..Len(todos) : todos[i].id = id
  THEN CHOOSE i \in 1..Len(todos) :
         /\ todos[i].id = id
         /\ \A j \in 1..(i - 1) : todos[j].id # id
  ELSE 0

----------------------------------------------------------------------------
(* The fetch-lifecycle containers.  One container runs at a time: fv names *)
(* it.  fs is its state: data (useFetch), todos (the stores), loading,     *)
(* error, lastFetched (Context, Redux).                                    *)

FetchVariants == {"useFetch", "zustand", "context", "redux", "jotai"}

\* useState initial values (hooks/useFetch) and the stores' initial states
initialState(v) ==
  [data |-> Null, todos |-> <<>>, loading |-> (v = "useFetch"),
   error |-> Null, lastFetched |-> Null]

\* the kinds of fetch a container offers
FetchKinds(v) ==
  CASE v = "zustand" -> {"all", "byUser"}
    [] v = "redux" -> {"all", "byUser", "byId"}
    [] OTHER -> {"all"}

NoPending == [all |-> 0, byUser |-> 0, byId |-> 0]
Inflight == pending.all + pending.byUser + pending.byId

(* hooks/useFetch *)
useFetchStart(s) == [s EXCEPT !.loading = TRUE, !.error = Null]

useFetchResolved(s, m, result) ==
  IF m THEN [s EXCEPT !.data = Some(result), !.error = Null, !.loading = FALSE]
  ELSE s

useFetchRejected(s, m, err) ==
  IF m THEN [s EXCEPT !.error = Some(StrOr(err.message, "Failed to fetch data")),
                      !.data = Null, !.loading = FALSE]
  ELSE s

(* stores/useTodosStore *)
zustandStart(s) == [s EXCEPT !.loading = TRUE, !.error = Null]

zustandFetchResolved(s, data) ==
  [s EXCEPT !.todos = data, !.loading = FALSE, !.error = Null]

zustandRejectedKeepsLoading(s, err, fallback) ==
  [s EXCEPT !.error = Some(instanceofErrorMessage(err, fallback))]

zustandRejected(s, err, fallback) ==
  [s EXCEPT !.loading = FALSE, !.error = Some(instanceofErrorMessage(err, fallback))]

zustandAddTodo(s, todoData, tempId) ==
  LET s1 == zustandStart(s)
      newTodo == [id |-> tempId, userId |-> todoData.userId,
                  title |-> todoData.title, completed |-> todoData.completed]
  IN [s1 EXCEPT !.todos = Append(s1.todos, newTodo), !.loading = FALSE]

zustandUpdateTodo(s, id, updates) ==
  LET s1 == zustandStart(s)
  IN [s1 EXCEPT !.todos = mapUpdates(s1.todos, id, updates),
                !.loading = FALSE]

zustandDeleteTodo(s, id) ==
  LET s1 == zustandStart(s)
  IN [s1 EXCEPT !.todos = filterNot(s1.todos, id), !.loading = FALSE]

zustandClearErrorStopsLoading(s) == [s EXCEPT !.error = Null, !.loading = FALSE]

zustandClearError(s) == [s EXCEPT !.error = Null]

zustandReset(s) == [s EXCEPT !.todos = <<>>, !.loading = FALSE, !.error = Null]

(* contexts/TodosContext: the reducer, then the provider's callbacks *)
todosReducer(state, action) ==
  CASE action.type \in {"TODOS_FETCH_START", "TODO_ADD_START",
                        "TODO_UPDATE_START", "TODO_DELETE_START"}
         -> [state EXCEPT !.loading = TRUE, !.error = Null]
    [] action.type = "TODOS_FETCH_SUCCESS"
         -> [state EXCEPT !.todos = action.todos, !.loading = FALSE,
                          !.error = Null, !.lastFetched = Some(action.at)]
    [] action.type \in {"TODOS_FETCH_FAILURE", "TODO_ADD_FAILURE",
                        "TODO_UPDATE_FAILURE", "TODO_DELETE_FAILURE"}
         -> [state EXCEPT !.loading = FALSE, !.error = Some(action.error)]
    [] action.type = "TODO_ADD_SUCCESS"
         -> [state EXCEPT !.todos = Append(state.todos, action.todo),
                          !.loading = FALSE, !.error = Null]
    [] action.type = "TODO_UPDATE_SUCCESS"
         -> [state EXCEPT !.todos = mapReplace(state.todos, action.todo),
                          !.loading = FALSE, !.error = Null]
    [] action.type = "TODO_DELETE_SUCCESS"
         -> [state EXCEPT !.todos = filterNot(state.todos, action.id),
                          !.loading = FALSE, !.error = Null]
    [] action.type = "CLEAR_ERROR" -> [state EXCEPT !.error = Null]
    [] OTHER -> state

contextFetchRejected(s, err) ==
  todosReducer(s, [type |-> "TODOS_FETCH_FAILURE",
                   error |-> instanceofErrorMessage(
                               err, "Failed to fetch todos. Please try again.")])

contextAddTodo(s, todoData, at) ==
  LET newTodo == [id |-> at, userId |-> todoData.userId,
                  title |-> todoData.title, completed |-> todoData.completed]
  IN todosReducer(todosReducer(s, [type |-> "TODO_ADD_START"]),
                  [type |-> "TODO_ADD_SUCCESS", todo |-> newTodo])

contextUpdateTodo(s, id, updates) ==
  LET s1 == todosReducer(s, [type |-> "TODO_UPDATE_START"])
      i == findIndex(s.todos, id)
  IN IF i = 0
     THEN todosReducer(s1, [type |-> "TODO_UPDATE_FAILURE",
                            error |-> "Todo with id " \o ToString(id) \o " not found"])
     ELSE todosReducer(s1, [type |-> "TODO_UPDATE_SUCCESS",
                            todo |-> merge(s.todos[i], updates)])

contextDeleteTodo(s, id) ==
  todosReducer(todosReducer(s, [type |-> "TODO_DELETE_START"]),
               [type |-> "TODO_DELETE_SUCCESS", id |-> id])

(* store/slices/todosSlice *)
thunkRejectValue(err, fallback) == instanceofErrorMessage(err, fallback)

todosSlice(state, action) ==
  CASE action.type = "addTodo"
         -> [state EXCEPT !.todos = Append(state.todos, action.payload)]
    [] action.type = "updateTodo"
         -> LET index == findIndex(state.todos, action.payload.id)
            IN IF index # 0
               THEN [state EXCEPT !.todos[index] = action.payload]
               ELSE state
    [] action.type = "deleteTodo"
         -> [state EXCEPT !.todos = filterNot(state.todos, action.payload)]
    [] action.type = "toggleTodo"
         -> LET index == findIndex(state.todos, action.payload)
            IN IF index # 0
               THEN [state EXCEPT !.todos[index].completed = ~@]
               ELSE state
    [] action.type = "clearTodos"
         -> [state EXCEPT !.todos = <<>>, !.lastFetched = Null]
    [] action.type = "clearError" -> [state EXCEPT !.error = Null]
    [] action.type = "pending"
         -> [state EXCEPT !.loading = TRUE, !.error = Null]
    [] action.type = "fetchTodos/fulfilled"
         -> [state EXCEPT !.loading = FALSE, !.todos = action.payload,
                          !.lastFetched = Some(action.at), !.error = Null]
    [] action.type = "fetchTodoById/fulfilled"
         -> LET existingIndex == findIndex(state.todos, action.payload.id)
            IN [state EXCEPT
                  !.loading = FALSE,
                  !.todos = IF existingIndex # 0
                            THEN [@ EXCEPT ![existingIndex] = action.payload]
                            ELSE Append(@, action.payload),
                  !.error = Null]
    [] action.type = "rejected"
         -> [state EXCEPT !.loading = FALSE,
                          !.error = Some(StrOr(Some(action.payload), action.fallback))]
    [] OTHER -> state

(* atoms/todosAtoms *)
fetchTodosAtomStartKeepsError(s) == [s EXCEPT !.loading = TRUE]

fetchTodosAtomStart(s) == [s EXCEPT !.loading = TRUE, !.error = Null]

fetchTodosAtomResolved(s, todos) == [s EXCEPT !.todos = todos, !.loading = FALSE]

fetchTodosAtomRejected(s, err) ==
  [s EXCEPT !.error = Some(instanceofErrorMessage(err, "Failed to fetch todos")),
            !.loading = FALSE]

addTodoAtom(s, todo) == [s EXCEPT !.todos = Append(s.todos, todo)]

toggleTodoAtomFirstItem(s, todoId) ==
  IF s.todos = <<>> THEN s
  ELSE [s EXCEPT !.todos[1].completed = ~@]

toggleTodoAtom(s, todoId) ==
  [s EXCEPT !.todos = mapToggle(s.todos, todoId)]

removeTodoAtom(s, todoId) == [s EXCEPT !.todos = filterNot(s.todos, todoId)]

----------------------------------------------------------------------------
(* The operations of the running fetch container *)

fetchStart(v, s) ==
  CASE v = "useFetch" -> useFetchStart(s)
    [] v = "zustand" -> zustandStart(s)
    [] v = "context" -> todosReducer(s, [type |-> "TODOS_FETCH_START"])
    [] v = "redux" -> todosSlice(s, [type |-> "pending"])
    [] v = "jotai" -> fetchTodosAtomStart(s)

fetchResolved(v, s, m, kind, result, at) ==
  CASE v = "useFetch" -> useFetchResolved(s, m, result)
    [] v = "zustand" -> zustandFetchResolved(s, result)
    [] v = "context" -> todosReducer(s, [type |-> "TODOS_FETCH_SUCCESS",
                                         todos |-> result, at |-> at])
    [] v = "redux" /\ kind = "byId"
         -> todosSlice(s, [type |-> "fetchTodoById/fulfilled", payload |-> result])
    [] v = "redux" /\ kind # "byId"
         -> todosSlice(s, [type |-> "fetchTodos/fulfilled",
                           payload |-> result, at |-> at])
    [] v = "jotai" -> fetchTodosAtomResolved(s, result)

fetchRejected(v, s, m, kind, err) ==
  CASE v = "useFetch" -> useFetchRejected(s, m, err)
    [] v = "zustand" -> zustandRejected(s, err, "Failed to fetch todos.")
    [] v = "context" -> contextFetchRejected(s, err)
    [] v = "redux" /\ kind = "byId"
         -> todosSlice(s, [type |-> "rejected",
                           payload |-> thunkRejectValue(err, "Failed to fetch todo."),
                           fallback |-> "Failed to fetch todo"])
    [] v = "redux" /\ kind # "byId"
         -> todosSlice(s, [type |-> "rejected",
                           payload |-> thunkRejectValue(err, "Failed to fetch todos."),
                           fallback |-> "Failed to fetch todos"])
    [] v = "jotai" -> fetchTodosAtomRejected(s, err)

Results(kind) == IF kind = "byId" THEN ServerTodos ELSE ServerLists

\* the catch block of the fetch operation ends with "throw error"
fetchRethrows(v) == v \in {"context", "jotai"}

\* the places of the application that invoke the fetch operation, and whether
\* the call is awaited inside a try/catch or followed by .catch()
FetchCallers(v) ==
  CASE v = "context" -> {[name |-> "autoFetch effect", catches |-> FALSE]}
    [] v = "jotai" -> {[name |-> "mount effect", catches |-> FALSE],
                       [name |-> "Refresh button", catches |-> FALSE]}
    [] OTHER -> {[name |-> "screen", catches |-> FALSE]}

\* the list a resolved fetch leaves in the container
DataOf(v, s) == IF v = "useFetch" THEN s.data ELSE Some(s.todos)

Event(op, arg, sl) == [op |-> op, arg |-> arg, solo |-> sl]

FetchFrame == UNCHANGED <<fmtVars, authVars, eb, screenVars>>

FetchInit ==
  /\ fv \in FetchVariants
  /\ fs = initialState(fv)
  /\ mounted = TRUE
  /\ pending = NoPending
  /\ solo = FALSE
  /\ now = ClockStart
  /\ fev = Event("init", Null, FALSE)

\* fetchData / fetchTodos / the thunks' pending action / fetchTodosAtom: up to
\* the await of the request
FetchTrigger(kind) ==
  /\ kind \in FetchKinds(fv)
  /\ Inflight < MaxInflight
  /\ fs' = fetchStart(fv, fs)
  /\ pending' = [pending EXCEPT ![kind] = @ + 1]
  /\ solo' = (Inflight = 0)
  /\ fev' = Event("trigger", kind, Inflight = 0)
  /\ UNCHANGED <<fv, mounted, now>>
  /\ FetchFrame

\* the request resolves: the rest of the try block.  The event records the
\* items received: the list, or the one item of a fetch by id.
FetchResolve(kind, result) ==
  /\ pending[kind] > 0
  /\ result \in Results(kind)
  /\ fs' = fetchResolved(fv, fs, mounted, kind, result, now)
  /\ pending' = [pending EXCEPT ![kind] = @ - 1]
  /\ solo' = FALSE
  /\ fev' = Event("resolved",
                  [kind |-> kind,
                   result |-> IF kind = "byId" THEN <<result>> ELSE result],
                  solo)
  /\ UNCHANGED <<fv, mounted, now>>
  /\ FetchFrame

\* the request rejects with the interceptor's ApiError: the catch block
\* The event records the data and lastFetched the container held when the
\* catch block was entered, and whether the rejection leaves the operation
\* and finds no handler at its caller.
FetchReject(kind, err) ==
  /\ pending[kind] > 0
  /\ err \in ApiErrors
  /\ fs' = fetchRejected(fv, fs, mounted, kind, err)
  /\ pending' = [pending EXCEPT ![kind] = @ - 1]
  /\ solo' = FALSE
  /\ \E caller \in FetchCallers(fv) :
       fev' = Event("rejected",
                    [kind |-> kind, err |-> err, data |-> DataOf(fv, fs),
                     lastFetched |-> fs.lastFetched, caller |-> caller.name,
                     unhandled |-> fetchRethrows(fv) /\ ~caller.catches],
                    solo)
  /\ UNCHANGED <<fv, mounted, now>>
  /\ FetchFrame

\* addTodo(todoData) of the Zustand store and of the Context provider
AddTodoData(todoData) ==
  /\ fv \in {"zustand", "context"}
  /\ Len(fs.todos) < MaxTodos
  /\ fs' = IF fv = "zustand" THEN zustandAddTodo(fs, todoData, now)
           ELSE contextAddTodo(fs, todoData, now)
  /\ fev' = Event("addTodo", now, FALSE)
  /\ UNCHANGED <<fv, mounted, pending, solo, now>>
  /\ FetchFrame

\* addTodo(todo) of the Redux slice and addTodoAtom
AddTodo(todo) ==
  /\ fv \in {"redux", "jotai"}
  /\ Len(fs.todos) < MaxTodos
  /\ fs' = IF fv = "redux" THEN todosSlice(fs, [type |-> "addTodo", payload |-> todo])
           ELSE addTodoAtom(fs, todo)
  /\ fev' = Event("addTodo", todo.id, FALSE)
  /\ UNCHANGED <<fv, mounted, pending, solo, now>>
  /\ FetchFrame

UpdateTodo(id, updates) ==
  /\ fv \in {"zustand", "context"}
  /\ fs' = IF fv = "zustand" THEN zustandUpdateTodo(fs, id, updates)
           ELSE contextUpdateTodo(fs, id, updates)
  /\ fev' = Event("updateTodo", id, FALSE)
  /\ UNCHANGED <<fv, mounted, pending, solo, now>>
  /\ FetchFrame

\* updateTodo(todo) of the Redux slice
UpdateTodoPayload(todo) ==
  /\ fv = "redux"
  /\ fs' = todosSlice(fs, [type |-> "updateTodo", payload |-> todo])
  /\ fev' = Event("updateTodo", todo.id, FALSE)
  /\ UNCHANGED <<fv, mounted, pending, solo, now>>
  /\ FetchFrame

DeleteTodo(id) ==
  /\ fv \in {"zustand", "context", "redux", "jotai"}
  /\ fs' = CASE fv = "zustand" -> zustandDeleteTodo(fs, id)
             [] fv = "context" -> contextDeleteTodo(fs, id)
             [] fv = "redux" -> todosSlice(fs, [type |-> "deleteTodo", payload |-> id])
             [] fv = "jotai" -> removeTodoAtom(fs, id)
  /\ fev' = Event("deleteTodo", id, FALSE)
  /\ UNCHANGED <<fv, mounted, pending, solo, now>>
  /\ FetchFrame

\* toggleTodo(id) of the Redux slice and toggleTodoAtom
ToggleTodo(id) ==
  /\ fv \in {"redux", "jotai"}
  /\ fs' = IF fv = "redux" THEN todosSlice(fs, [type |-> "toggleTodo", payload |-> id])
           ELSE toggleTodoAtom(fs, id)
  /\ fev' = Event("toggleTodo", [id |-> id, before |-> fs], FALSE)
  /\ UNCHANGED <<fv, mounted, pending, solo, now>>
  /\ FetchFrame

ClearError ==
  /\ fv \in {"zustand", "context", "redux"}
  /\ fs' = CASE fv = "zustand" -> zustandClearError(fs)
             [] fv = "context" -> todosReducer(fs, [type |-> "CLEAR_ERROR"])
             [] fv = "redux" -> todosSlice(fs, [type |-> "clearError"])
  /\ fev' = Event("clearError", fs, FALSE)
  /\ UNCHANGED <<fv, mounted, pending, solo, now>>
  /\ FetchFrame

\* reset() of the Zustand store, clearTodos of the Redux slice
ResetTodos ==
  /\ fv \in {"zustand", "redux"}
  /\ fs' = IF fv = "zustand" THEN zustandReset(fs)
           ELSE todosSlice(fs, [type |-> "clearTodos"])
  /\ fev' = Event("reset", Null, FALSE)
  /\ UNCHANGED <<fv, mounted, pending, solo, now>>
  /\ FetchFrame

\* the cleanup effect of useFetch
Unmount ==
  /\ fv = "useFetch"
  /\ mounted
  /\ mounted' = FALSE
  /\ fev' = Event("unmount", Null, FALSE)
  /\ UNCHANGED <<fv, fs, pending, solo, now>>
  /\ FetchFrame

\* Date.now() moves on
Tick ==
  /\ now < ClockStart + MaxTick
  /\ now' = now + 1
  /\ UNCHANGED <<fv, fs, mounted, pending, solo, fev>>
  /\ FetchFrame

InitFetch ==
  FetchInit /\ FmtIdle /\ AuthIdle /\ ErrorBoundaryInit /\ ScreenIdle

NextFetch ==
  \/ \E kind \in {"all", "byUser", "byId"} : FetchTrigger(kind)
  \/ \E kind \in {"all", "byUser", "byId"} :
       \E result \in Results(kind) : FetchResolve(kind, result)
  \/ \E kind \in {"all", "byUser", "byId"} :
       \E err \in ApiErrors : FetchReject(kind, err)
  \/ \E todoData \in TodoData : AddTodoData(todoData)
  \/ \E todo \in TodoPayloads : AddTodo(todo)
  \/ \E id \in ToggleIds, updates \in Updates : UpdateTodo(id, updates)
  \/ \E todo \in TodoPayloads : UpdateTodoPayload(todo)
  \/ \E id \in ToggleIds : DeleteTodo(id)
  \/ \E id \in ToggleIds : ToggleTodo(id)
  \/ ClearError
  \/ ResetTodos
  \/ Unmount
  \/ Tick

SpecFetch == InitFetch /\ [][NextFetch]_vars

----------------------------------------------------------------------------
(* C1: in every fetch-lifecycle variant and from every prior state (idle,  *)
(* previous success, previous failure), a fetch that is triggered and      *)
(* awaited and whose request resolves leaves loading = false, error = null *)
(* and data equal to the resolved result.  The fetch is the only one in    *)
(* flight from its trigger to its completion, and the useFetch owner is    *)
(* still mounted.                                                          *)

AwaitedFetchResolved ==
  /\ fev.op = "resolved"
  /\ fev.solo
  /\ fv = "useFetch" => mounted

C1_ResolvedFetchSucceeds ==
  AwaitedFetchResolved =>
    /\ fs.loading = FALSE
    /\ fs.error = Null
    /\ fev.arg.kind # "byId" => DataOf(fv, fs) = Some(fev.arg.result)

C1_Witness ==
  /\ AwaitedFetchResolved
  /\ fv = "jotai"
  /\ fev.arg.result # <<>>
  /\ fs.todos = fev.arg.result

(* C2: when a fetch rejects with the API client's normalised error object, *)
(* the stored error equals "[status] message" if the error carries a       *)
(* status and the message alone if it carries none.                        *)

C2_StoredErrorIsFormatted ==
  (fev.op = "rejected" /\ (fv = "useFetch" => mounted))
    => fs.error = Some(ReferenceFormat(fev.arg.err))

(* C10: toggling the item with identifier id inverts the completed flag of *)
(* exactly that one item and leaves every other item, the order of the     *)
(* list and every other field of the toggled item unchanged; toggling an   *)
(* id that is not in the list changes nothing.                             *)

Holders(todos, id) == {i \in 1..Len(todos) : todos[i].id = id}

ToggledExactly(before, after, i) ==
  /\ Len(after) = Len(before)
  /\ after[i].completed = ~before[i].completed
  /\ after[i].id = before[i].id
  /\ after[i].userId = before[i].userId
  /\ after[i].title = before[i].title
  /\ \A j \in 1..Len(before) : j # i => after[j] = before[j]

ToggleFrame(before, after, id) ==
  LET hit == Holders(before.todos, id)
  IN /\ hit = {} => after = before
     /\ Cardinality(hit) = 1 =>
          /\ \A i \in hit : ToggledExactly(before.todos, after.todos, i)
          /\ after.loading = before.loading
          /\ after.error = before.error
          /\ after.lastFetched = before.lastFetched

----------------------------------------------------------------------------
(* services/storage: AsyncStorage wrapper with JSON serialization *)

Tokens == {"t1", "t2"}
User(i, e, n) == [id |-> i, email |-> e, name |-> n]
Users == {User(1, "a@x.io", "Ann"), User(2, "b@x.io", "Bob")}

\* what the authenticate endpoint answers with
AuthResponses ==
  {[token |-> "t1", user |-> User(1, "a@x.io", "Ann")],
   [token |-> "t2", user |-> User(2, "b@x.io", "Bob")]}

\* what callers hand to setUser and setToken
SetUserArgs == {User(2, "b@x.io", "Bob")}
SetTokenArgs == {"t2"}

Emails == {"", "a@x.io"}
Passwords == {"", "pw"}

STORAGE_KEYS == [AUTH_TOKEN |-> "auth_token", USER_DATA |-> "user_data"]

\* AsyncStorage holds JSON text; the text of a value is kept apart from the
\* value itself
JSONstringify(value) == [json |-> value]
JSONparse(text) == text.json

EmptyStorage == [auth_token |-> Null, user_data |-> Null]

\* the Error AsyncStorage rejects with
StorageError == ErrorInstance("Storage failure")

setItemLosesWrite(store, key, value) == store

\* setItem(key, value) when AsyncStorage.setItem resolves
setItem(store, key, value) ==
  [store EXCEPT ![key] = Some(JSONstringify(value))]

\* getItem(key): ok is whether AsyncStorage.getItem resolved; a throw is
\* caught and answered with null
getItemRethrows(store, key, ok) ==
  IF ok
  THEN [threw |-> FALSE,
        value |-> IF store[key] # Null
                  THEN Some(JSONparse(Val(store[key]))) ELSE Null]
  ELSE [threw |-> TRUE, value |-> Null]

getItem(store, key, ok) ==
  IF ok
  THEN [threw |-> FALSE,
        value |-> IF store[key] # Null
                  THEN Some(JSONparse(Val(store[key]))) ELSE Null]
  ELSE [threw |-> FALSE, value |-> Null]

\* removeItem(key) when AsyncStorage.removeItem resolves
removeItem(store, key) == [store EXCEPT ![key] = Null]

requestInterceptorNoHeader(token) == Null

\* request interceptor: `if (token) Authorization = Bearer token`
requestInterceptor(token) ==
  IF token # Null /\ Val(token) # "" THEN Some("Bearer " \o Val(token))
  ELSE Null

----------------------------------------------------------------------------
(* The four auth containers *)

AuthVariants == {"zustand", "redux", "context", "jotai"}

authInitialState(v) ==
  [user |-> Null, token |-> Null, isAuthenticated |-> FALSE,
   loading |-> FALSE, isInitializing |-> (v = "context"), error |-> Null]

\* stores/useAuthStore
useAuthStoreLoginStart(s) == [s EXCEPT !.loading = TRUE, !.error = Null]

useAuthStoreLoginResolved(s, response) ==
  [s EXCEPT !.user = Some(response.user), !.token = Some(response.token),
            !.loading = FALSE, !.error = Null]

useAuthStoreLoginRejected(s, err) ==
  [s EXCEPT !.loading = FALSE,
            !.error = Some(instanceofErrorMessage(
                             err, "Login failed. Please try again."))]

useAuthStoreLogoutStart(s) == [s EXCEPT !.loading = TRUE]

useAuthStoreLogoutResolved(s) ==
  [s EXCEPT !.user = Null, !.token = Null, !.loading = FALSE,
            !.error = Null]

useAuthStoreLogoutRejectedKeepsLoading(s, err) ==
  [s EXCEPT !.error = Some(instanceofErrorMessage(err, "Logout failed."))]

useAuthStoreLogoutRejected(s, err) ==
  [s EXCEPT !.loading = FALSE,
            !.error = Some(instanceofErrorMessage(err, "Logout failed."))]

useAuthStoreClearError(s) == [s EXCEPT !.error = Null]

useAuthStoreSetUser(s, user) == [s EXCEPT !.user = Some(user)]

useAuthStoreCheckAuthStart(s) == [s EXCEPT !.loading = TRUE]

useAuthStoreCheckAuthDropsToken(s, isAuthenticated, user, token) ==
  IF isAuthenticated
  THEN [s EXCEPT !.user = ObjOrNull(user), !.token = Null,
                 !.loading = FALSE]
  ELSE [s EXCEPT !.user = Null, !.token = Null, !.loading = FALSE]

useAuthStoreCheckAuthResolved(s, isAuthenticated, user, token) ==
  IF isAuthenticated
  THEN [s EXCEPT !.user = ObjOrNull(user), !.token = StrOrNull(token),
                 !.loading = FALSE]
  ELSE [s EXCEPT !.user = Null, !.token = Null, !.loading = FALSE]

useAuthStoreCheckAuthRejected(s) ==
  [s EXCEPT !.loading = FALSE,
            !.error = Some("Failed to check authentication status")]

\* store/slices/authSlice: what a thunk rejects with
authRejectValue(err, fallback) == instanceofErrorMessage(err, fallback)

\* store/slices/authSlice: reducers and extraReducers
authSlice(state, action) ==
  CASE action.type = "clearError" -> [state EXCEPT !.error = Null]
    [] action.type = "setUser"
         -> [state EXCEPT !.user = Some(action.payload),
                          !.isAuthenticated = TRUE]
    [] action.type = "setToken"
         -> [state EXCEPT !.token = Some(action.payload)]
    [] action.type = "login/pending"
         -> [state EXCEPT !.loading = TRUE, !.error = Null]
    [] action.type = "login/fulfilled"
         -> [state EXCEPT !.loading = FALSE,
                          !.user = Some(action.payload.user),
                          !.token = Some(action.payload.token),
                          !.isAuthenticated = TRUE, !.error = Null]
    [] action.type = "login/rejected"
         -> [state EXCEPT !.loading = FALSE,
                          !.error = Some(StrOr(Some(action.payload),
                                               "Login failed")),
                          !.isAuthenticated = FALSE]
    [] action.type = "logout/pending" -> [state EXCEPT !.loading = TRUE]
    [] action.type = "logout/fulfilled"
         -> [state EXCEPT !.loading = FALSE, !.user = Null, !.token = Null,
                          !.isAuthenticated = FALSE, !.error = Null]
    [] action.type = "logout/rejected"
         -> [state EXCEPT !.loading = FALSE,
                          !.error = Some(StrOr(Some(action.payload),
                                               "Logout failed"))]
    [] action.type = "checkAuth/pending" -> [state EXCEPT !.loading = TRUE]
    [] action.type = "checkAuth/fulfilled"
         -> [state EXCEPT !.loading = FALSE,
                          !.user = action.payload.user,
                          !.token = action.payload.token,
                          !.isAuthenticated =
                             (action.payload.token # Null
                                /\ Val(action.payload.token) # ""),
                          !.error = Null]
    [] action.type = "checkAuth/rejected"
         -> [state EXCEPT !.loading = FALSE,
                          !.error = Some(StrOr(Some(action.payload),
                                    "Failed to check authentication")),
                          !.isAuthenticated = FALSE]

checkAuthPayloadDropsUser(isAuthenticated, user, token) ==
  IF isAuthenticated
  THEN [user |-> Null, token |-> StrOrNull(token)]
  ELSE [user |-> Null, token |-> Null]

\* checkAuthAsync: the value the thunk fulfils with
checkAuthPayload(isAuthenticated, user, token) ==
  IF isAuthenticated
  THEN [user |-> ObjOrNull(user), token |-> StrOrNull(token)]
  ELSE [user |-> Null, token |-> Null]

\* contexts/AuthContext: authReducer
authReducer(state, action) ==
  CASE action.type = "AUTH_START"
         -> [state EXCEPT !.loading = TRUE, !.error = Null]
    [] action.type = "AUTH_SUCCESS"
         -> [state EXCEPT !.user = Some(action.payload.user),
                          !.token = Some(action.payload.token),
                          !.isAuthenticated = TRUE, !.loading = FALSE,
                          !.error = Null]
    [] action.type = "AUTH_FAILURE"
         -> [state EXCEPT !.loading = FALSE,
                          !.error = Some(action.payload),
                          !.isAuthenticated = FALSE]
    [] action.type = "AUTH_LOGOUT"
         -> [state EXCEPT !.user = Null, !.token = Null,
                          !.isAuthenticated = FALSE, !.loading = FALSE,
                          !.error = Null]
    [] action.type = "AUTH_INIT_START"
         -> [state EXCEPT !.isInitializing = TRUE]
    [] action.type = "AUTH_INIT_SUCCESS"
         -> [state EXCEPT !.user = action.payload.user,
                          !.token = action.payload.token,
                          !.isAuthenticated = (action.payload.token # Null),
                          !.isInitializing = FALSE, !.error = Null]
    [] action.type = "AUTH_INIT_FAILURE"
         -> [state EXCEPT !.isInitializing = FALSE,
                          !.isAuthenticated = FALSE]
    [] action.type = "SET_USER"
         -> [state EXCEPT !.user = Some(action.payload)]
    [] action.type = "CLEAR_ERROR" -> [state EXCEPT !.error = Null]

\* atoms/authAtoms
loginAtomResolved(s, response) ==
  [s EXCEPT !.user = Some(response.user), !.token = Some(response.token)]

logoutAtomDone(s) == [s EXCEPT !.user = Null, !.token = Null]

isAuthenticatedAtom(s) == s.token # Null /\ Val(s.token) # ""

\* the Authenticated state of a container: the flag where the container keeps
\* one, the derived atom in Jotai, a held token in Zustand
Authenticated(v, s) ==
  CASE v = "redux" -> s.isAuthenticated
    [] v = "context" -> s.isAuthenticated
    [] v = "jotai" -> isAuthenticatedAtom(s)
    [] v = "zustand" -> s.token # Null

Action(type, payload) == [type |-> type, payload |-> payload]

\* the state change of each operation, per container
loginStart(v, s) ==
  CASE v = "zustand" -> useAuthStoreLoginStart(s)
    [] v = "redux" -> authSlice(s, Action("login/pending", Null))
    [] v = "context" -> authReducer(s, Action("AUTH_START", Null))
    [] v = "jotai" -> s

loginResolved(v, s, response) ==
  CASE v = "zustand" -> useAuthStoreLoginResolved(s, response)
    [] v = "redux" -> authSlice(s, Action("login/fulfilled", response))
    [] v = "context" -> authReducer(s, Action("AUTH_SUCCESS", response))
    [] v = "jotai" -> loginAtomResolved(s, response)

loginRejected(v, s, err) ==
  CASE v = "zustand" -> useAuthStoreLoginRejected(s, err)
    [] v = "redux"
         -> authSlice(s, Action("login/rejected",
               authRejectValue(err, "Login failed. Please try again.")))
    [] v = "context"
         -> authReducer(s, Action("AUTH_FAILURE",
               instanceofErrorMessage(err, "Login failed. Please try again.")))
    [] v = "jotai" -> s

logoutStart(v, s) ==
  CASE v = "zustand" -> useAuthStoreLogoutStart(s)
    [] v = "redux" -> authSlice(s, Action("logout/pending", Null))
    [] v = "context" -> s
    [] v = "jotai" -> s

logoutResolved(v, s) ==
  CASE v = "zustand" -> useAuthStoreLogoutResolved(s)
    [] v = "redux" -> authSlice(s, Action("logout/fulfilled", Null))
    [] v = "context" -> authReducer(s, Action("AUTH_LOGOUT", Null))
    [] v = "jotai" -> logoutAtomDone(s)

logoutRejected(v, s, err) ==
  CASE v = "zustand" -> useAuthStoreLogoutRejected(s, err)
    [] v = "redux"
         -> authSlice(s, Action("logout/rejected",
                                authRejectValue(err, "Logout failed.")))
    [] v = "context" -> authReducer(s, Action("AUTH_LOGOUT", Null))
    [] v = "jotai" -> logoutAtomDone(s)

restoreStart(v, s) ==
  CASE v = "zustand" -> useAuthStoreCheckAuthStart(s)
    [] v = "redux" -> authSlice(s, Action("checkAuth/pending", Null))
    [] v = "context" -> authReducer(s, Action("AUTH_INIT_START", Null))

restoreResolved(v, s, isAuthenticated, user, token) ==
  CASE v = "zustand"
         -> useAuthStoreCheckAuthResolved(s, isAuthenticated, user, token)
    [] v = "redux"
         -> authSlice(s, Action("checkAuth/fulfilled",
                         checkAuthPayload(isAuthenticated, user, token)))
    [] v = "context"
         -> authReducer(s, Action("AUTH_INIT_SUCCESS",
                                  [user |-> user, token |-> token]))

restoreRejected(v, s, err) ==
  CASE v = "zustand" -> useAuthStoreCheckAuthRejected(s)
    [] v = "redux"
         -> authSlice(s, Action("checkAuth/rejected",
               authRejectValue(err, "Failed to check authentication.")))
    [] v = "context" -> authReducer(s, Action("AUTH_INIT_FAILURE", Null))

\* the first storage read of a restore: isAuthenticated() in checkAuth and
\* checkAuthAsync, getCurrentUser() in initializeAuth
FirstRead(v) == IF v = "context" THEN "user" ELSE "isAuthenticated"

----------------------------------------------------------------------------
(* Operations of an auth container.  An operation in flight is a record    *)
(* with its position pc; solo says that no other operation was in flight   *)
(* at any time since it started.                                           *)

AEvent(op, arg) == [op |-> op, arg |-> arg]

AuthFrame == UNCHANGED <<fmtVars, fetchVars, eb, screenVars>>

Busy == loginP # Null \/ logoutP # Null \/ restoreP # Null

Unsolo(p) == IF p = Null THEN Null ELSE Some([Val(p) EXCEPT !.solo = FALSE])

\* a login that is no longer alone gives up its snapshot of storage
UnsoloLogin(p) ==
  IF p = Null THEN Null
  ELSE Some([Val(p) EXCEPT !.solo = FALSE, !.stored = Null])

AuthInit ==
  /\ av \in AuthVariants
  /\ au = authInitialState(av)
  /\ storage = EmptyStorage
  /\ loginP = Null /\ logoutP = Null /\ restoreP = Null
  /\ aev = AEvent("init", Null)
  /\ sent = FALSE /\ lastLogin = Null /\ restored = FALSE

\* authService.login is entered: the container's start, then api.post up to
\* the request interceptor's storage read.  stored is what durable storage
\* held at that moment, kept while the login is the only operation in flight.
BeginLogin(s, email, password) ==
  /\ loginP = Null
  /\ au' = loginStart(av, s)
  /\ loginP' = Some([pc |-> "intercept", email |-> email,
                     password |-> password, response |-> Null,
                     solo |-> ~Busy,
                     stored |-> IF Busy THEN Null ELSE Some(storage)])
  /\ logoutP' = Unsolo(logoutP) /\ restoreP' = Unsolo(restoreP)
  /\ aev' = AEvent("login", [email |-> email, password |-> password])
  /\ UNCHANGED <<av, storage, sent, lastLogin, restored>>

\* the login screens: handleLogin with the form's email and password
HandleLogin(email, password) ==
  /\ av \in {"zustand", "redux"}
  /\ ~au.loading
  /\ IF email = "" \/ password = ""
     THEN /\ au' = IF av = "redux"
                   THEN authSlice(au, Action("clearError", Null)) ELSE au
          /\ aev' = AEvent("validation",
                           [email |-> email, password |-> password])
          /\ UNCHANGED <<av, storage, loginP, logoutP, restoreP, sent,
                         lastLogin, restored>>
     ELSE BeginLogin(IF av = "zustand" THEN useAuthStoreClearError(au)
                     ELSE au, email, password)
  /\ AuthFrame

\* login(credentials) of AuthProvider, loginAtom
Login(email, password) ==
  /\ av \in {"context", "jotai"}
  /\ av = "context" => restored
  /\ BeginLogin(au, email, password)
  /\ AuthFrame

\* authService.login throws at some stage: the container's catch
LoginRejects(err, stage) ==
  /\ au' = loginRejected(av, au, err)
  /\ loginP' = Null
  /\ aev' = AEvent("loginDone", [ok |-> FALSE, stage |-> stage,
                                 solo |-> Val(loginP).solo, before |-> au,
                                 stored |-> Val(loginP).stored])

\* the interceptor's read of the token resolves and the request is sent
LoginSend(ok) ==
  /\ loginP # Null /\ Val(loginP).pc = "intercept"
  /\ LET p == Val(loginP)
         r == getItem(storage, STORAGE_KEYS.AUTH_TOKEN, ok)
     IN IF r.threw
        THEN LoginRejects(StorageError, "intercept") /\ UNCHANGED sent
        ELSE /\ sent' = TRUE
             /\ loginP' = Some([p EXCEPT !.pc = "await", !.email = "",
                                          !.password = ""])
             /\ aev' = AEvent("request",
                              [email |-> p.email, password |-> p.password,
                               header |-> requestInterceptor(r.value),
                               readOk |-> ok])
             /\ au' = au
  /\ UNCHANGED <<av, storage, logoutP, restoreP, lastLogin, restored>>
  /\ AuthFrame

\* the authenticate endpoint answers with a token and a user
LoginRespond(response) ==
  /\ loginP # Null /\ Val(loginP).pc = "await"
  /\ loginP' = Some([Val(loginP) EXCEPT !.pc = "setToken",
                                        !.response = Some(response)])
  /\ aev' = AEvent("response", response)
  /\ UNCHANGED <<av, au, storage, logoutP, restoreP, sent, lastLogin,
                 restored>>
  /\ AuthFrame

\* the request fails: the response interceptor rejects with an ApiError
LoginFail(err) ==
  /\ loginP # Null /\ Val(loginP).pc = "await"
  /\ LoginRejects(err, "await")
  /\ UNCHANGED <<av, storage, logoutP, restoreP, sent, lastLogin,
                 restored>>
  /\ AuthFrame

\* await setItem(AUTH_TOKEN, token)
LoginStoreToken(ok) ==
  /\ loginP # Null /\ Val(loginP).pc = "setToken"
  /\ LET p == Val(loginP)
     IN IF ok
        THEN /\ storage' = setItem(storage, STORAGE_KEYS.AUTH_TOKEN,
                                   Val(p.response).token)
             /\ loginP' = Some([p EXCEPT !.pc = "setUser"])
             /\ lastLogin' = Null
             /\ aev' = AEvent("setItem", STORAGE_KEYS.AUTH_TOKEN)
             /\ au' = au
        ELSE /\ LoginRejects(StorageError, "setToken")
             /\ UNCHANGED <<storage, lastLogin>>
  /\ UNCHANGED <<av, logoutP, restoreP, sent, restored>>
  /\ AuthFrame

\* await setItem(USER_DATA, user), then the container's success branch
LoginStoreUser(ok) ==
  /\ loginP # Null /\ Val(loginP).pc = "setUser"
  /\ LET p == Val(loginP)
         response == Val(p.response)
     IN IF ok
        THEN /\ storage' = setItem(storage, STORAGE_KEYS.USER_DATA,
                                   response.user)
             /\ au' = loginResolved(av, au, response)
             /\ loginP' = Null
             /\ lastLogin' = IF p.solo
                             THEN Some([token |-> response.token,
                                        user |-> response.user,
                                        restarted |-> FALSE])
                             ELSE Null
             /\ aev' = AEvent("loginDone", [ok |-> TRUE, stage |-> "done",
                                            solo |-> p.solo, before |-> au])
        ELSE /\ LoginRejects(StorageError, "setUser")
             /\ UNCHANGED <<storage, lastLogin>>
  /\ UNCHANGED <<av, logoutP, restoreP, sent, restored>>
  /\ AuthFrame

\* logout() is called: the container's start, then authService.logout up to
\* its first removeItem
Logout ==
  /\ av # "none"
  /\ logoutP = Null
  /\ av = "context" => restored
  /\ au' = logoutStart(av, au)
  /\ logoutP' = Some([pc |-> "removeToken", solo |-> ~Busy])
  /\ loginP' = UnsoloLogin(loginP) /\ restoreP' = Unsolo(restoreP)
  /\ aev' = AEvent("logout", Null)
  /\ UNCHANGED <<av, storage, sent, lastLogin, restored>>
  /\ AuthFrame

\* authService.logout throws: the container's catch
LogoutRejects(err) ==
  /\ au' = logoutRejected(av, au, err)
  /\ logoutP' = Null
  /\ aev' = AEvent("logoutDone", [ok |-> FALSE, solo |-> Val(logoutP).solo])

\* await removeItem(AUTH_TOKEN)
LogoutRemoveToken(ok) ==
  /\ logoutP # Null /\ Val(logoutP).pc = "removeToken"
  /\ IF ok
     THEN /\ storage' = removeItem(storage, STORAGE_KEYS.AUTH_TOKEN)
          /\ logoutP' = Some([Val(logoutP) EXCEPT !.pc = "removeUser"])
          /\ lastLogin' = Null
          /\ aev' = AEvent("removeItem", STORAGE_KEYS.AUTH_TOKEN)
          /\ au' = au
     ELSE LogoutRejects(StorageError) /\ UNCHANGED <<storage, lastLogin>>
  /\ UNCHANGED <<av, loginP, restoreP, sent, restored>>
  /\ AuthFrame

\* await removeItem(USER_DATA), then the container's success branch
LogoutRemoveUser(ok) ==
  /\ logoutP # Null /\ Val(logoutP).pc = "removeUser"
  /\ IF ok
     THEN /\ storage' = removeItem(storage, STORAGE_KEYS.USER_DATA)
          /\ au' = logoutResolved(av, au)
          /\ logoutP' = Null
          /\ lastLogin' = Null
          /\ aev' = AEvent("logoutDone",
                           [ok |-> TRUE, solo |-> Val(logoutP).solo])
     ELSE LogoutRejects(StorageError) /\ UNCHANGED <<storage, lastLogin>>
  /\ UNCHANGED <<av, loginP, restoreP, sent, restored>>
  /\ AuthFrame

\* the restore operation is called, once per process: checkAuth,
\* checkAuthAsync, or the mount effect of AuthProvider; Jotai has none
Restore ==
  /\ av \in {"zustand", "redux", "context"}
  /\ restoreP = Null
  /\ ~restored
  /\ au' = restoreStart(av, au)
  /\ restoreP' = Some([pc |-> FirstRead(av), user |-> Null, reads |-> <<>>,
                       solo |-> ~Busy,
                       fresh |-> (~restored /\ au = authInitialState(av))])
  /\ loginP' = UnsoloLogin(loginP) /\ logoutP' = Unsolo(logoutP)
  /\ restored' = TRUE
  /\ aev' = AEvent("restore", Null)
  /\ sent' = FALSE
  /\ UNCHANGED <<av, storage, lastLogin>>
  /\ AuthFrame

\* before: the user and token the container held when the restore's last
\* dispatch arrived
RestoreDone(p, reads, threw) ==
  AEvent("restoreDone", [reads |-> reads, threw |-> threw, solo |-> p.solo,
                         fresh |-> p.fresh,
                         before |-> [user |-> au.user, token |-> au.token]])

\* one storage read of the restore resolves; after the last one the
\* container's success branch runs
RestoreRead(ok) ==
  /\ restoreP # Null
  /\ LET p == Val(restoreP)
         key == IF p.pc = "user" THEN STORAGE_KEYS.USER_DATA
                ELSE STORAGE_KEYS.AUTH_TOKEN
         r == getItem(storage, key, ok)
         reads == Append(p.reads, [key |-> key, ok |-> ok])
     IN IF r.threw
        THEN /\ au' = restoreRejected(av, au, StorageError)
             /\ restoreP' = Null
             /\ aev' = RestoreDone(p, reads, TRUE)
        ELSE CASE p.pc = "isAuthenticated" /\ r.value = Null
                    -> /\ au' = restoreResolved(av, au, FALSE, Null, Null)
                       /\ restoreP' = Null
                       /\ aev' = RestoreDone(p, reads, FALSE)
               [] p.pc = "isAuthenticated" /\ r.value # Null
                    -> /\ au' = au
                       /\ restoreP' = Some([p EXCEPT !.pc = "user",
                                                     !.reads = reads])
                       /\ aev' = AEvent("getItem", key)
               [] p.pc = "user"
                    -> /\ au' = au
                       /\ restoreP' = Some([p EXCEPT !.pc = "token",
                                                     !.user = r.value,
                                                     !.reads = reads])
                       /\ aev' = AEvent("getItem", key)
               [] p.pc = "token"
                    -> /\ au' = restoreResolved(av, au, TRUE, p.user,
                                                r.value)
                       /\ restoreP' = Null
                       /\ aev' = RestoreDone(p, reads, FALSE)
  /\ UNCHANGED <<av, storage, loginP, logoutP, sent, lastLogin,
                 restored>>
  /\ AuthFrame

\* any other call of the API client (todosApi, userApi): the interceptor's
\* read of the token resolves and the request is sent
ApiRequest(ok) ==
  /\ av # "none"
  /\ LET r == getItem(storage, STORAGE_KEYS.AUTH_TOKEN, ok)
     IN /\ ~r.threw
        /\ aev' = AEvent("apiRequest",
                         [header |-> requestInterceptor(r.value),
                          readOk |-> ok])
  /\ UNCHANGED <<av, au, storage, loginP, logoutP, restoreP, sent,
                 lastLogin, restored>>
  /\ AuthFrame

\* clearError of the Zustand store, the Redux slice and the Context provider
AuthClearError ==
  /\ av \in {"zustand", "redux", "context"}
  /\ au' = CASE av = "zustand" -> useAuthStoreClearError(au)
             [] av = "redux" -> authSlice(au, Action("clearError", Null))
             [] av = "context" -> authReducer(au, Action("CLEAR_ERROR", Null))
  /\ aev' = AEvent("clearError", au)
  /\ UNCHANGED <<av, storage, loginP, logoutP, restoreP, sent,
                 lastLogin, restored>>
  /\ AuthFrame

\* setUser(user) of the Zustand store, the Redux slice and the Context
\* provider.  The Zustand store also writes the user to storage without
\* awaiting the write; the write is taken to land at once, or to fail.
SetUser(user, ok) ==
  /\ av \in {"zustand", "redux", "context"}
  /\ av # "zustand" => ok
  /\ au' = CASE av = "zustand" -> useAuthStoreSetUser(au, user)
             [] av = "redux" -> authSlice(au, Action("setUser", user))
             [] av = "context" -> authReducer(au, Action("SET_USER", user))
  /\ storage' = IF av = "zustand" /\ ok
                THEN setItem(storage, STORAGE_KEYS.USER_DATA, user)
                ELSE storage
  /\ lastLogin' = IF av = "zustand" /\ ok THEN Null ELSE lastLogin
  /\ aev' = AEvent("setUser", Null)
  /\ UNCHANGED <<av, loginP, logoutP, restoreP, sent, restored>>
  /\ AuthFrame

\* setToken(token) of the Redux slice
SetToken(token) ==
  /\ av = "redux"
  /\ au' = authSlice(au, Action("setToken", token))
  /\ aev' = AEvent("setToken", Null)
  /\ UNCHANGED <<av, storage, loginP, logoutP, restoreP, sent, lastLogin,
                 restored>>
  /\ AuthFrame

\* the process ends and a fresh one starts: memory is lost, durable storage
\* stays
Restart ==
  /\ av # "none"
  /\ au' = authInitialState(av)
  /\ loginP' = Null /\ logoutP' = Null /\ restoreP' = Null
  /\ sent' = FALSE /\ restored' = FALSE
  /\ lastLogin' = IF lastLogin = Null THEN Null
                  ELSE Some([Val(lastLogin) EXCEPT !.restarted = TRUE])
  /\ aev' = AEvent("restart", Null)
  /\ UNCHANGED <<av, storage>>
  /\ AuthFrame

----------------------------------------------------------------------------
(* Specification of the auth containers *)

InitAuth ==
  AuthInit /\ FmtIdle /\ FetchIdle /\ ErrorBoundaryInit /\ ScreenIdle

NextAuth ==
  \/ \E email \in Emails, password \in Passwords : HandleLogin(email, password)
  \/ \E email \in Emails, password \in Passwords : Login(email, password)
  \/ \E ok \in BOOLEAN : LoginSend(ok)
  \/ \E response \in AuthResponses : LoginRespond(response)
  \/ \E err \in ApiErrors : LoginFail(err)
  \/ \E ok \in BOOLEAN : LoginStoreToken(ok)
  \/ \E ok \in BOOLEAN : LoginStoreUser(ok)
  \/ Logout
  \/ \E ok \in BOOLEAN : LogoutRemoveToken(ok)
  \/ \E ok \in BOOLEAN : LogoutRemoveUser(ok)
  \/ Restore
  \/ \E ok \in BOOLEAN : RestoreRead(ok)
  \/ \E ok \in BOOLEAN : ApiRequest(ok)
  \/ AuthClearError
  \/ Restart

SpecAuth == InitAuth /\ [][NextAuth]_vars

\* the auth containers with the setters that write user and token directly
NextSession ==
  \/ NextAuth
  \/ \E user \in SetUserArgs, ok \in BOOLEAN : SetUser(user, ok)
  \/ \E token \in SetTokenArgs : SetToken(token)

SpecSession == InitAuth /\ [][NextSession]_vars

----------------------------------------------------------------------------
(* Claims about the auth containers, checked under SpecAuth *)

\* C4: in every auth variant, login with an empty email or an empty password
\* never issues the authenticate request (POST /auth/login): every request
\* that is sent carries a non-empty email and a non-empty password.
C4_EmptyCredentialsNeverSent ==
  aev.op = "request" => aev.arg.email # "" /\ aev.arg.password # ""

LogoutCompleted == aev.op = "logoutDone" /\ aev.arg.solo

\* C5: in every auth variant, once a logout() that ran alone has completed,
\* the in-memory session is Unauthenticated (user null, token null, not
\* authenticated), also when a storage removal threw.
C5_LogoutEndsUnauthenticated ==
  LogoutCompleted =>
    /\ au.user = Null
    /\ au.token = Null
    /\ ~Authenticated(av, au)

\* C6: once a logout() that ran alone has completed, durable storage holds
\* neither the auth-token key nor the user-data key, also when a removal
\* step failed.
C6_LogoutEmptiesStorage ==
  LogoutCompleted =>
    /\ storage[STORAGE_KEYS.AUTH_TOKEN] = Null
    /\ storage[STORAGE_KEYS.USER_DATA] = Null

ReadsOk(reads) == \A i \in 1..Len(reads) : reads[i].ok

FailedRead(reads, key) ==
  \E i \in 1..Len(reads) : reads[i].key = key /\ ~reads[i].ok

\* a restore that ran alone, so that storage is what it was when it started
RestoreCompleted == aev.op = "restoreDone" /\ aev.arg.solo

PersistedPair == lastLogin # Null /\ Val(lastLogin).restarted

\* C8: after a successful login has persisted {token, user} and no logout or
\* other write has intervened, a restore in a fresh process whose reads
\* succeed yields that token and that user.
C8_RestoreRoundTrip ==
  (/\ RestoreCompleted
   /\ aev.arg.fresh
   /\ ReadsOk(aev.arg.reads)
   /\ PersistedPair) =>
    /\ au.token = Some(Val(lastLogin).token)
    /\ au.user = Some(Val(lastLogin).user)

C8_Witness ==
  /\ RestoreCompleted
  /\ aev.arg.fresh
  /\ ReadsOk(aev.arg.reads)
  /\ PersistedPair
  /\ av = "redux"
  /\ au.user = Some(User(2, "b@x.io", "Bob"))

----------------------------------------------------------------------------
(* Specification of one container, a fetch container or an auth container *)

InitApp == InitFetch \/ InitAuth

NextApp ==
  \/ fv # "none" /\ NextFetch
  \/ av # "none" /\ NextAuth

SpecApp == InitApp /\ [][NextApp]_vars

\* C11: right after clearError(), in every todos container and auth container
\* that has one, the error is null and every other field of the container is
\* what it was before the call, also while a fetch is in flight.
C11_ClearErrorChangesOnlyError ==
  /\ (fv # "none" /\ fev.op = "clearError") =>
       fs = [fev.arg EXCEPT !.error = Null]
  /\ (av # "none" /\ aev.op = "clearError") =>
       au = [aev.arg EXCEPT !.error = Null]

C11_Witness ==
  /\ fv = "zustand"
  /\ fev.op = "clearError"
  /\ fev.arg.error # Null
  /\ Inflight > 0
  /\ fs.todos # <<>>

\* a login that ran alone has just taken its success branch
LoginSucceeded == aev.op = "loginDone" /\ aev.arg.ok /\ aev.arg.solo

\* C12: when a login that ran alone has set the in-memory token and user,
\* durable storage already holds the JSON text of that token and of that
\* user.
C12_PersistedBeforeAuthenticated ==
  LoginSucceeded =>
    /\ au.token # Null /\ au.user # Null
    /\ storage[STORAGE_KEYS.AUTH_TOKEN] = Some(JSONstringify(Val(au.token)))
    /\ storage[STORAGE_KEYS.USER_DATA] = Some(JSONstringify(Val(au.user)))

C12_Witness ==
  /\ LoginSucceeded
  /\ av = "context"
  /\ au.token = Some("t2")
  /\ au.isAuthenticated
  /\ storage[STORAGE_KEYS.AUTH_TOKEN] = Some(JSONstringify("t2"))

\* a login that ran alone has just failed (request, or a storage write)
LoginFailed == aev.op = "loginDone" /\ ~aev.arg.ok /\ aev.arg.solo

\* C13: when a login fails, user, token and the authenticated flag are what
\* they were before the login, from any prior state, an Authenticated one
\* included; only the error field differs.
C13_FailedLoginKeepsSession ==
  LoginFailed =>
    /\ au.user = aev.arg.before.user
    /\ au.token = aev.arg.before.token
    /\ au.isAuthenticated = aev.arg.before.isAuthenticated

RequestIssued == aev.op \in {"request", "apiRequest"}

\* the header of a request that carries the token storage holds
BearerOf(store) ==
  IF store[STORAGE_KEYS.AUTH_TOKEN] # Null
  THEN Some("Bearer " \o JSONparse(Val(store[STORAGE_KEYS.AUTH_TOKEN])))
  ELSE Null

C15_UserIffToken == (au.user # Null) <=> (au.token # Null)

----------------------------------------------------------------------------
(* C16: in every reachable state of each todos container, after any        *)
(* sequence of fetch, add, update, delete and clearError operations, a     *)
(* non-null error is present only when the status is failure: the loading  *)
(* flag and a non-null error are never both set.                           *)

C16_ErrorOnlyWhenNotLoading ==
  fv # "none" => ~(fs.loading /\ fs.error # Null)

\* a fetch failed while another one was still in flight: the error is shown,
\* the loading flag is down
C16_Witness ==
  /\ fv \in {"zustand", "context", "redux", "jotai"}
  /\ fev.op = "rejected"
  /\ Inflight > 0
  /\ fs.error # Null
  /\ ~fs.loading

----------------------------------------------------------------------------
(* C17: in every fetch-lifecycle variant, when a triggered fetch fails,    *)
(* the data field after the failure equals the data field before it (a     *)
(* previous successful result is retained); only the loading flag and the  *)
(* error message change.                                                   *)

C17_FailureKeepsData ==
  fev.op = "rejected" =>
    /\ DataOf(fv, fs) = fev.arg.data
    /\ fs.lastFetched = fev.arg.lastFetched

(* C19: every failure of a fetch is caught where the operation is invoked  *)
(* and turned into the error field: no fetch triggered by the application  *)
(* ends as an unhandled promise rejection.                                 *)

C19_NoUnhandledRejection ==
  fev.op = "rejected" => ~fev.arg.unhandled

(* C18: useFetch performs no state update after its owner has unmounted:   *)
(* once the cleanup has set mountedRef.current = false, neither a fetch    *)
(* that was in flight at unmount nor a refetch() invoked afterwards        *)
(* changes data, loading or error.                                         *)

C18_NoUpdateAfterUnmount ==
  [][(fv = "useFetch" /\ ~mounted) => fs' = fs]_vars

----------------------------------------------------------------------------
(* components/ErrorBoundary around the screens (app/_layout).  The child   *)
(* is a screen that fetches on mount and on a button press: the Explore    *)
(* screen over useFetch, over the Zustand store or over the Jotai atoms.   *)

BoundaryChildren == {"useFetch", "zustand", "jotai"}

\* values a render can throw
RenderErrors == {ErrorInstance("Not found"), JsString(""), JsNull}

\* JavaScript truthiness of a thrown value
Truthy(value) ==
  /\ value.t \notin {"null", "undefined"}
  /\ value.t = "string" => value.message # Some("")

getDerivedStateFromError(error) == [hasError |-> TRUE, error |-> error]

resetError(state) == [hasError |-> FALSE, error |-> JsNull]

render(state) ==
  IF state.hasError /\ Truthy(state.error) THEN "fallback" ELSE "children"

\* The state lives in the component tree below the boundary: the useState
\* cells of useFetch, and the store of the JotaiProvider the layout mounts
\* inside the boundary.  The Zustand store is a module-level object.
HeldInTree(v) == v \in {"useFetch", "jotai"}

\* A child throws while rendering.  React unmounts the children of the
\* boundary and renders what render() returns for the derived state: the
\* fallback, or new children when the guard of render() fails.  Requests in
\* flight of an unmounted instance complete into that instance and are
\* dropped here.  While the fallback is shown fs keeps the state the last
\* instance had; the next instance starts from the initial state.
ChildThrows(error) ==
  /\ render(eb) = "children"
  /\ eb' = getDerivedStateFromError(error)
  /\ IF HeldInTree(fv)
     THEN /\ pending' = NoPending
          /\ solo' = FALSE
          /\ IF render(eb') = "children"
             THEN fs' = initialState(fv) /\ mounted' = TRUE
             ELSE fs' = fs /\ mounted' = FALSE
     ELSE UNCHANGED <<fs, mounted, pending, solo>>
  /\ fev' = Event("childThrows", [before |-> fs], FALSE)
  /\ UNCHANGED <<fv, now, fmtVars, authVars, screenVars>>

\* the Try Again button of the fallback: resetError, then the children are
\* mounted again
ResetError ==
  /\ render(eb) = "fallback"
  /\ eb' = resetError(eb)
  /\ IF HeldInTree(fv)
     THEN fs' = initialState(fv) /\ mounted' = TRUE
     ELSE UNCHANGED <<fs, mounted>>
  /\ fev' = Event("resetError", [before |-> fs], FALSE)
  /\ UNCHANGED <<fv, pending, solo, now, fmtVars, authVars, screenVars>>

InitBoundary == InitFetch /\ fv \in BoundaryChildren

NextBoundary ==
  \/ render(eb) = "children" /\ FetchTrigger("all")
  \/ \E result \in Results("all") : FetchResolve("all", result)
  \/ \E err \in ApiErrors : FetchReject("all", err)
  \/ \E error \in RenderErrors : ChildThrows(error)
  \/ ResetError

SpecBoundary == InitBoundary /\ [][NextBoundary]_vars

(* C20: the fallback screen is shown exactly while hasError is true, and   *)
(* hasError is true if and only if a captured error is stored; resetError  *)
(* sets hasError = false and error = null and changes no fetch state, so   *)
(* after a reset the children are rendered again with the underlying data  *)
(* untouched.                                                              *)

C20_FallbackWhileErrorAndResetKeepsData ==
  /\ eb.hasError <=> render(eb) = "fallback"
  /\ eb.hasError <=> eb.error.t \notin {"null", "undefined"}
  /\ fev.op = "resetError" =>
       /\ ~eb.hasError
       /\ eb.error = JsNull
       /\ fs = fev.arg.before

----------------------------------------------------------------------------
(* C21: every change of the in-memory session is persisted: whenever no    *)
(* auth operation is in flight, after any interleaving of restore, login,  *)
(* logout, setUser and setToken, the in-memory token and user equal the    *)
(* token and user held in durable storage (both present with the same      *)
(* values, or both absent).  The startup restore of the process has run.   *)

StoredValue(key) ==
  IF storage[key] = Null THEN Null ELSE Some(JSONparse(Val(storage[key])))

C21_SessionEqualsStorage ==
  (av # "none" /\ restored /\ ~Busy) =>
    /\ au.token = StoredValue(STORAGE_KEYS.AUTH_TOKEN)
    /\ au.user = StoredValue(STORAGE_KEYS.USER_DATA)

----------------------------------------------------------------------------
(* The Explore screens limit the list they show: the useFetch screen       *)
(* slices inside the fetch callback, the store screens slice the todos of  *)
(* the store when they render.                                             *)

MaxListLen == 12
DisplayLimit == 10

Min(a, b) == IF a < b THEN a ELSE b
Max(a, b) == IF a > b THEN a ELSE b

\* Array.prototype.slice(start, end): negative indices count from the end,
\* both are clamped to the length
sliceSkipsFirst(arr, start, end) ==
  LET len == Len(arr)
      from == IF start < 0 THEN Max(len + start, 0) ELSE Min(start, len)
      to == IF end < 0 THEN Max(len + end, 0) ELSE Min(end, len)
  IN IF to <= from THEN <<>> ELSE SubSeq(arr, from + 2, to)

slice(arr, start, end) ==
  LET len == Len(arr)
      from == IF start < 0 THEN Max(len + start, 0) ELSE Min(start, len)
      to == IF end < 0 THEN Max(len + end, 0) ELSE Min(end, len)
  IN IF to <= from THEN <<>> ELSE SubSeq(arr, from + 1, to)

\* what GET /todos can answer to an Explore screen: n items, ids ascending
\* from first + 1, every m-th item completed
FetchedList(n, first, title, m) ==
  [i \in 1..n |-> Todo(first + i, title, i % m = 0)]

ExploreInit ==
  /\ \E n \in 0..MaxListLen, first \in {0, 100}, title \in Titles, m \in 1..3 :
       exploreData = FetchedList(n, first, title, m)
  /\ displayedTodos = Null
  /\ loginScreen = LoginScreenInit

\* app/(tabs)/explore: `return data.slice(0, 10)` in the useFetch callback
ExploreUseFetch ==
  /\ displayedTodos = Null
  /\ displayedTodos' = Some([screen |-> "useFetch",
                             todos |-> slice(exploreData, 0, DisplayLimit)])
  /\ UNCHANGED <<exploreData, loginScreen, fmtVars, fetchVars, authVars, eb>>

\* the Zustand and Jotai Explore screens: `todos.slice(0, 10)` at render
ExploreStore(screen) ==
  /\ displayedTodos = Null
  /\ displayedTodos' = Some([screen |-> screen,
                             todos |-> slice(exploreData, 0, DisplayLimit)])
  /\ UNCHANGED <<exploreData, loginScreen, fmtVars, fetchVars, authVars, eb>>

InitExplore ==
  ExploreInit /\ FmtIdle /\ FetchIdle /\ AuthIdle /\ ErrorBoundaryInit

NextExplore ==
  \/ ExploreUseFetch
  \/ \E screen \in {"zustand", "jotai"} : ExploreStore(screen)

SpecExplore == InitExplore /\ [][NextExplore]_vars

(* C22: for a fetched list of any length n, the list shown by the Explore  *)
(* screens is exactly the first min(n, 10) items of the fetched list in    *)
(* their original order, and computing it never raises an error.           *)

C22_ShownIsFirstTen ==
  displayedTodos # Null =>
    LET shown == Val(displayedTodos).todos
    IN /\ Len(shown) = Min(Len(exploreData), 10)
       /\ \A i \in 1..Len(shown) : shown[i] = exploreData[i]

\* a list longer than the limit was cut to its first ten items
C22_Witness ==
  /\ displayedTodos # Null
  /\ Len(exploreData) = 12
  /\ Len(Val(displayedTodos).todos) = 10
  /\ Val(displayedTodos).todos[10] = exploreData[10]

----------------------------------------------------------------------------
(* C23: a fetch may be triggered while another is in flight, with no       *)
(* cancellation, queueing or deduplication: both requests run, each        *)
(* applies its result when it completes, and once both have completed the  *)
(* data and error fields are those written by the fetch that completed     *)
(* last, whatever the order in which the two were triggered.               *)

\* the last of several overlapping fetches has just completed
LastOfOverlapping ==
  /\ fv # "none"
  /\ fev.op \in {"resolved", "rejected"}
  /\ ~fev.solo
  /\ Inflight = 0
  /\ fv = "useFetch" => mounted

C23_LastCompletionWins ==
  LastOfOverlapping =>
    IF fev.op = "resolved"
    THEN /\ fs.error = Null
         /\ IF fev.arg.kind = "byId"
            THEN \E i \in 1..Len(fs.todos) : fs.todos[i] = fev.arg.result[1]
            ELSE DataOf(fv, fs) = Some(fev.arg.result)
    ELSE fs.error =
           fetchRejected(fv, fs, mounted, fev.arg.kind, fev.arg.err).error

(* C24: in each fetch-lifecycle variant the loading flag is true in every  *)
(* reachable state in which at least one triggered fetch has not yet       *)
(* resolved or rejected, including when two fetches overlap and only the   *)
(* first has completed.                                                    *)

C24_LoadingWhileInflight ==
  (fv # "none" /\ Inflight > 0) => fs.loading

----------------------------------------------------------------------------
(* C25: in the Context AuthProvider, if login() completes successfully     *)
(* while the startup restore (initializeAuth) is still in flight, the      *)
(* state after both have completed is Authenticated with the token and     *)
(* user returned by the login; the late AUTH_INIT_SUCCESS does not replace *)
(* them with the values read from storage before the login.                *)

\* The restore has just completed and found the session a login had set
\* while it was in flight.  A login of the provider starts after the mount
\* effect, so a session held at this point was set during the restore.
RestoreCompletedAfterLogin ==
  /\ av = "context"
  /\ aev.op = "restoreDone"
  /\ aev.arg.before.token # Null
  /\ aev.arg.before.user # Null
  /\ ReadsOk(aev.arg.reads)
  /\ loginP = Null /\ logoutP = Null

C25_LateRestoreKeepsLogin ==
  RestoreCompletedAfterLogin =>
    /\ au.isAuthenticated
    /\ au.token = aev.arg.before.token
    /\ au.user = aev.arg.before.user

(* C26: a login that fails leaves durable storage unchanged: if           *)
(* authService.login rejects at any step (the remote call, the token      *)
(* write, or the user-data write), the auth-token and user-data keys hold  *)
(* the same values as before the login.  The login ran alone.              *)

C26_FailedLoginKeepsStorage ==
  LoginFailed => storage = Val(aev.arg.stored)

(* C27: in the Redux auth slice and in the Context auth reducer the        *)
(* isAuthenticated flag equals "token is non-null" in every reachable      *)
(* state, after any sequence of login (success or failure), logout,        *)
(* restore and clearError.                                                 *)

C27_FlagIffToken ==
  av \in {"redux", "context"} => (au.isAuthenticated <=> au.token # Null)

----------------------------------------------------------------------------
(* C28: the identifiers of the items in a todos list are pairwise distinct *)
(* in every reachable state, after any sequence of list fetches (returning *)
(* distinct ids), fetch-by-id upserts and local addTodo calls whose        *)
(* temporary id is taken from the current clock value.  Checked for the    *)
(* containers whose addTodo takes the id from Date.now() itself.           *)

C28_DistinctIds ==
  fv \in {"zustand", "context"} =>
    \A i, j \in 1..Len(fs.todos) :
      fs.todos[i].id = fs.todos[j].id => i = j

----------------------------------------------------------------------------
(* The operations that raise a loading flag, with the assumption that the  *)
(* asynchronous call under each of them eventually resolves or rejects:    *)
(* every step of an operation in flight is weakly fair.  Starting an       *)
(* operation is not.                                                       *)

FetchCompletes ==
  /\ fv # "none"
  /\ \/ \E kind \in {"all", "byUser", "byId"} :
          \E result \in Results(kind) : FetchResolve(kind, result)
     \/ \E kind \in {"all", "byUser", "byId"} :
          \E err \in ApiErrors : FetchReject(kind, err)

LoginSteps ==
  \/ \E ok \in BOOLEAN : LoginSend(ok)
  \/ \E response \in AuthResponses : LoginRespond(response)
  \/ \E err \in ApiErrors : LoginFail(err)
  \/ \E ok \in BOOLEAN : LoginStoreToken(ok)
  \/ \E ok \in BOOLEAN : LoginStoreUser(ok)

LogoutSteps ==
  \/ \E ok \in BOOLEAN : LogoutRemoveToken(ok)
  \/ \E ok \in BOOLEAN : LogoutRemoveUser(ok)

RestoreSteps == \E ok \in BOOLEAN : RestoreRead(ok)

NextLive ==
  \/ /\ fv # "none"
     /\ \/ \E kind \in {"all", "byUser", "byId"} : FetchTrigger(kind)
        \/ FetchCompletes
        \/ Unmount
  \/ /\ av # "none"
     /\ \/ \E email \in Emails, password \in Passwords :
             HandleLogin(email, password)
        \/ \E email \in Emails, password \in Passwords :
             Login(email, password)
        \/ LoginSteps
        \/ Logout
        \/ LogoutSteps
        \/ Restore
        \/ RestoreSteps

SpecLive ==
  /\ InitApp
  /\ [][NextLive]_vars
  /\ WF_vars(FetchCompletes)
  /\ WF_vars(LoginSteps)
  /\ WF_vars(LogoutSteps)
  /\ WF_vars(RestoreSteps)

(* C29: in the Zustand, Redux, Context and Jotai containers and in a       *)
(* mounted useFetch, every triggered operation (fetch, login, logout,      *)
(* restore) whose asynchronous call eventually resolves or rejects is      *)
(* eventually followed by a state with loading = false, and the restore of *)
(* the Context AuthProvider by isInitializing = false: no path leaves the  *)
(* loading flag set forever.                                               *)

FetchInFlight == IF fv = "none" THEN FALSE ELSE Inflight > 0
FetchLoading == IF fv = "none" THEN FALSE ELSE fs.loading
AuthLoading == IF av = "none" THEN FALSE ELSE au.loading
Initializing == IF av = "none" THEN FALSE ELSE au.isInitializing

C29_LoadingEventuallyFalse ==
  /\ FetchInFlight ~> (~FetchLoading \/ (fv = "useFetch" /\ ~mounted))
  /\ (av # "none" /\ Busy) ~> ~AuthLoading
  /\ (av = "context" /\ restoreP # Null) ~> ~Initializing

\* a logout whose storage removal threw has completed and lowered the flag
C29_Witness ==
  /\ av = "zustand"
  /\ aev.op = "logoutDone"
  /\ ~aev.arg.ok
  /\ ~Busy
  /\ ~au.loading

----------------------------------------------------------------------------
(* The Redux LoginScreen: the snackbar that shows the slice's error *)

\* the [error] effect has not yet run for the error the store now holds
EffectDue == au.error # loginScreen.effectError

\* React has flushed the effects of the last render and the microtask queue
\* is empty: the next press, timer or network completion can be handled
Settled == ~EffectDue /\ ~loginScreen.microtask

ScreenFrame ==
  UNCHANGED <<fmtVars, fetchVars, eb, exploreData, displayedTodos>>

\* handleLogin of the Redux LoginScreen (the button is disabled while
\* loading; the screen is replaced once isAuthenticated)
LoginScreenHandleLogin(email, password) ==
  /\ av = "redux" /\ Settled
  /\ ~au.loading /\ ~au.isAuthenticated
  /\ IF email = "" \/ password = ""
     THEN /\ au' = authSlice(au, Action("clearError", Null))
          /\ loginScreen' = [loginScreen EXCEPT !.snackbarVisible = TRUE]
          /\ aev' = AEvent("validation",
                           [email |-> email, password |-> password])
          /\ UNCHANGED <<av, storage, loginP, logoutP, restoreP, sent,
                         lastLogin, restored>>
     ELSE /\ BeginLogin(au, email, password)
          /\ UNCHANGED loginScreen
  /\ ScreenFrame

\* the awaits of loginAsync resolve or reject, up to fulfilled / rejected
LoginScreenAwaits ==
  /\ av = "redux" /\ Settled
  /\ LoginSteps

\* useEffect(..., [error]): runs after a render in which error changed
ErrorEffect ==
  /\ av = "redux" /\ EffectDue
  /\ loginScreen' =
       [loginScreen EXCEPT
          !.effectError = au.error,
          !.microtask = @ \/ (/\ au.error # Null
                              /\ Val(au.error) # ""
                              /\ au.error # loginScreen.dismissedErrorRef)]
  /\ UNCHANGED authVars
  /\ ScreenFrame

\* queueMicrotask(() => setSnackbarVisible(true))
RunMicrotask ==
  /\ av = "redux" /\ loginScreen.microtask
  /\ loginScreen' = [loginScreen EXCEPT !.microtask = FALSE,
                                        !.snackbarVisible = TRUE]
  /\ UNCHANGED authVars
  /\ ScreenFrame

\* handleDismissSnackbar: the Snackbar's onDismiss (its action or its timer)
HandleDismissSnackbar ==
  /\ av = "redux" /\ Settled
  /\ loginScreen.snackbarVisible
  /\ loginScreen' = [loginScreen EXCEPT !.snackbarVisible = FALSE,
                                        !.dismissedErrorRef = au.error]
  /\ au' = authSlice(au, Action("clearError", Null))
  /\ aev' = AEvent("dismiss", [error |-> au.error])
  /\ UNCHANGED <<av, storage, loginP, logoutP, restoreP, sent, lastLogin,
                 restored>>
  /\ ScreenFrame

InitLoginScreen ==
  /\ AuthInit /\ av = "redux"
  /\ FmtIdle /\ FetchIdle /\ ErrorBoundaryInit /\ ScreenIdle

NextLoginScreen ==
  \/ \E email \in Emails, password \in Passwords :
       LoginScreenHandleLogin(email, password)
  \/ LoginScreenAwaits
  \/ ErrorEffect
  \/ RunMicrotask
  \/ HandleDismissSnackbar

\* effects run after every render and queued microtasks always run
SpecLoginScreen ==
  /\ InitLoginScreen
  /\ [][NextLoginScreen]_vars
  /\ WF_vars(ErrorEffect)
  /\ WF_vars(RunMicrotask)

(* C30: in the Redux login screen, whenever loginAsync is rejected and     *)
(* sets a non-null error, the snackbar eventually becomes visible, also    *)
(* when the same message was shown and dismissed after an earlier attempt. *)

LoginRejectedWithError ==
  IF av # "redux" THEN FALSE
  ELSE aev.op = "loginDone" /\ ~aev.arg.ok /\ au.error # Null

SnackbarVisible ==
  IF av # "redux" THEN FALSE ELSE loginScreen.snackbarVisible

C30_FailedLoginEventuallyShown == LoginRejectedWithError ~> SnackbarVisible

\* the same property for a failure whose message was not dismissed before
C30_UndismissedFailureShown ==
  (LoginRejectedWithError /\ au.error # loginScreen.dismissedErrorRef)
    ~> SnackbarVisible

====
